---- MODULE Spec2Model ----
(***************************************************************************)
(* A model of llm-api's completion orchestrators: the token budget guard,  *)
(* the per-provider message normalizers, the respond continuation, the     *)
(* retry/backoff recursion of the fetch-based OpenAI client and the        *)
(* streaming aggregation.                                                  *)
(*                                                                         *)
(* Texts are sequences of one-character strings.  An absent (undefined)    *)
(* text is the sentinel UNDEF, an absent number is NoNum.                  *)
(***************************************************************************)
EXTENDS Integers, Sequences, FiniteSets, TLC

VARIABLES
    provider,         \* which orchestrator class the client is
    contextSize,      \* modelConfig.contextSize (optional number)
    pc,               \* position of the current chatCompletion call
    via,              \* how the current call was entered: "call" | "respond" | "retry"
    initialMessages,  \* first argument of the current chatCompletion call
    requestOptions,   \* second argument (the object, after defaults() filled it)
    messages,         \* the local `messages` of the current call
    maxPromptTokens,  \* the local `maxPromptTokens`
    messageTokens,    \* the local `messageTokens`
    wire,             \* the request body last handed to the provider
    netCalls,         \* provider requests issued by the current top-level call
    error,            \* what the current call threw
    response,         \* the ChatResponse the current call returned
    parent,           \* respond bookkeeping: the call the current call continues
    chain,            \* number of respond calls made so far
    sleeps,           \* the delays slept by the current top-level call, in order
    attempt,          \* outcome kind of the provider request in flight
    given,            \* the messages and options the caller passed at top level, and the
                      \* caller's options object as the call has left it
    stream,           \* modelConfig.stream
    completion,       \* streaming accumulator: text
    streamParts,      \* streaming accumulator: tool/function call fragments
    events,           \* "data" events emitted to the caller's sink, in order
    feed,             \* what the provider has still to send on the stream
    fragments,        \* the text fragments the provider has sent on the stream, in order
    body,             \* the equivalent non-streamed response of the provider
    other             \* the locals of a second chatCompletion call on the same client,
                      \* suspended at an await while the call above runs

vars == <<provider, contextSize, pc, via, initialMessages, requestOptions,
          messages, maxPromptTokens, messageTokens, wire, netCalls, error,
          response, parent, chain, sleeps, attempt, given, stream, completion,
          streamParts, events, feed, fragments, body, other>>

-----------------------------------------------------------------------------
(* Values *)

UNDEF == <<"undefined">>

NoNum == [def |-> FALSE, v |-> 0]

Num(n) == [def |-> TRUE, v |-> n]

\* JavaScript truthiness of an optional string / optional number
Truthy(t) == t # UNDEF /\ t # <<>>

TruthyNum(n) == n.def /\ n.v # 0

\* a ?? b on texts
OrElse(a, b) == IF a = UNDEF THEN b ELSE a

NoCall == [def |-> FALSE, id |-> UNDEF, type |-> "undefined", name |-> UNDEF, arguments |-> UNDEF]

Msg(r, c) == [role |-> r, content |-> c, toolCall |-> NoCall, toolCallId |-> UNDEF]

NoError == [type |-> "none", overflow |-> 0, role |-> "none", code |-> "none"]

\* stop sequences: absent, one string, or a list of strings
NoStop == [kind |-> "none", items |-> <<>>]

NoWire ==
    [messages |-> <<>>, system |-> UNDEF, prompt |-> UNDEF, maxTokens |-> NoNum, stop |-> NoStop]

NoOptions == [systemMessage |-> UNDEF, responsePrefix |-> UNDEF,
              minimumResponseTokens |-> NoNum, retries |-> NoNum,
              retryInterval |-> NoNum, maximumResponseTokens |-> NoNum, stop |-> NoStop]

\* response.usage of the provider: absent
NoUsage == [def |-> FALSE, total_tokens |-> 0, prompt_tokens |-> 0, completion_tokens |-> 0]

\* ChatResponse.usage: absent
NoEnvelopeUsage == [def |-> FALSE, totalTokens |-> 0, promptTokens |-> 0, completionTokens |-> 0]

NoResponse == [def |-> FALSE, message |-> Msg("none", UNDEF), content |-> UNDEF,
               toolCallId |-> UNDEF, name |-> UNDEF, arguments |-> UNDEF,
               history |-> <<>>, options |-> NoOptions, usage |-> NoEnvelopeUsage]

NoParent == [def |-> FALSE, original |-> <<>>, received |-> Msg("none", UNDEF),
             wrapped |-> Msg("none", UNDEF), override |-> FALSE,
             options |-> NoOptions, opt |-> NoOptions,
             input |-> [isString |-> FALSE, text |-> UNDEF, msg |-> Msg("none", UNDEF)]]

NoGiven == [messages |-> <<>>, options |-> NoOptions, object |-> NoOptions]

NoFeed ==
    [kind |-> "none", text |-> <<>>, name |-> <<>>, arguments |-> <<>>, started |-> FALSE,
     name2 |-> <<>>, arguments2 |-> <<>>, buffer |-> <<>>]

NoAttempt == [kind |-> "none", status |-> 0, code |-> "none"]

NoBody == [kind |-> "none", content |-> UNDEF, toolCall |-> NoCall, usage |-> NoUsage]

RECURSIVE SumSeq(_)
SumSeq(s) == IF s = <<>> THEN 0 ELSE Head(s) + SumSeq(Tail(s))

RECURSIVE FlatSeq(_)
FlatSeq(ss) == IF ss = <<>> THEN <<>> ELSE Head(ss) \o FlatSeq(Tail(ss))

-----------------------------------------------------------------------------
(* Configuration: src/src/config.ts *)

CompletionDefaultRetries == 3

MinimumResponseTokens == 200

RateLimitRetryIntervalMs == 30000

DefaultMaxPromptTokens == 100000

CompletionsMaxPromptTokens == 1000000

\* "completions" is the Anthropic orchestrator over the text-completions endpoint
Providers == {"openai", "legacy", "anthropic", "groq", "bedrock", "completions"}

\* lodash defaults(requestOptions, RequestDefaults): a default fills a property
\* only where the caller left it undefined
Defaults(o) ==
    [o EXCEPT !.minimumResponseTokens = IF @.def THEN @ ELSE Num(MinimumResponseTokens),
              !.retries = IF @.def THEN @ ELSE Num(CompletionDefaultRetries),
              !.retryInterval = IF @.def THEN @ ELSE Num(RateLimitRetryIntervalMs)]

-----------------------------------------------------------------------------
(* Token estimator and budget guard *)

\* encoder.encode(message).length: the tokenizer is external; one token per character
EncodeLength(text) == Len(text)

\* getTikTokenTokensFromPrompt(promptOrMessages, functions)
getTokensFromPrompt(texts, functions) ==
    SumSeq([i \in 1..Len(texts) |-> 5 + EncodeLength(texts[i])]) + 2
    + (IF functions = UNDEF THEN 0
       ELSE SumSeq([i \in 1..Len(functions) |-> 5 + EncodeLength(functions[i])]) + 20)

\* const maxPromptTokens = this.modelConfig.contextSize ? contextSize - minimumResponseTokens : 100_000
MaxPromptTokens(ctx, opts) ==
    IF TruthyNum(ctx) THEN ctx.v - opts.minimumResponseTokens.v ELSE DefaultMaxPromptTokens

\* the budget per orchestrator: the fallback differs in the text-completions one
Budget(p, ctx, opts) ==
    IF p = "completions" /\ ~TruthyNum(ctx) THEN CompletionsMaxPromptTokens
    ELSE MaxPromptTokens(ctx, opts)

\* this.modelConfig.stop: the clients are constructed without one
ConfiguredStop == NoStop

\* typeof stop === 'string' ? [stop] : stop
StopList(stop) == IF stop.kind = "string" THEN [stop EXCEPT !.kind = "list"] ELSE stop

\* the stop / stop_sequences of the request body (the fetch-based client and the
\* completions variant read modelConfig.stop as well)
WireStop(p, opts) ==
    CASE p \in {"openai", "legacy", "groq"} -> opts.stop
      [] p = "anthropic" -> StopList(opts.stop)
      [] p = "edge" -> ConfiguredStop
      [] OTHER -> StopList(ConfiguredStop)

\* const maxTokens = contextSize && maximumResponseTokens
\*   ? Math.min(contextSize - maxPromptTokens, maximumResponseTokens) : undefined
\* (the OpenAI orchestrators; the max_tokens of the others is not modelled)
MaxTokens(p, ctx, opts, tokens) ==
    IF p \in {"openai", "legacy", "edge"}
       /\ TruthyNum(ctx) /\ TruthyNum(opts.maximumResponseTokens)
    THEN Num(IF ctx.v - Budget(p, ctx, opts) < opts.maximumResponseTokens.v
             THEN ctx.v - Budget(p, ctx, opts) ELSE opts.maximumResponseTokens.v)
    ELSE NoNum

TokenOverflowGE(tokens, budget) == tokens >= budget

\* if (messageTokens > maxPromptTokens) throw new TokenError(..., messageTokens - maxPromptTokens)
TokenOverflow(tokens, budget) == tokens > budget

TokenError(tokens, budget) == [NoError EXCEPT !.type = "TokenError", !.overflow = tokens - budget]

-----------------------------------------------------------------------------
(* Prompt/message normalizers *)

HUMAN_PROMPT == <<"\n", "\n", "H", "u", "m", "a", "n", ":">>

AI_PROMPT == <<"\n", "\n", "A", "s", "s", "i", "s", "t", "a", "n", "t", ":">>

\* String.prototype.trim on the two markers: the leading newlines go
ForbiddenTokens == << SubSeq(HUMAN_PROMPT, 3, Len(HUMAN_PROMPT)), SubSeq(AI_PROMPT, 3, Len(AI_PROMPT)) >>

StartsWith(text, tok) == Len(tok) <= Len(text) /\ SubSeq(text, 1, Len(tok)) = tok

\* String.prototype.replaceAll(token, ''): left to right, non-overlapping
RECURSIVE ReplaceAll(_, _)
ReplaceAll(text, tok) ==
    IF text = <<>> THEN <<>>
    ELSE IF StartsWith(text, tok) THEN ReplaceAll(SubSeq(text, Len(tok) + 1, Len(text)), tok)
    ELSE <<Head(text)>> \o ReplaceAll(Tail(text), tok)

\* message.content && ForbiddenTokens.reduce((prev, token) => prev.replaceAll(token, ''), message.content)
StripForbidden(text) ==
    IF ~Truthy(text) THEN text
    ELSE ReplaceAll(ReplaceAll(text, ForbiddenTokens[1]), ForbiddenTokens[2])

SystemMessages(opts) ==
    IF Truthy(opts.systemMessage) THEN << Msg("system", opts.systemMessage) >> ELSE <<>>

PrefillMessages(opts) ==
    IF Truthy(opts.responsePrefix) THEN << Msg("assistant", opts.responsePrefix) >> ELSE <<>>

\* the local `messages` of chatCompletion, per orchestrator
BuildMessages(p, initial, opts) ==
    CASE p \in {"openai", "legacy", "edge"} -> SystemMessages(opts) \o initial
      [] p = "anthropic" -> initial \o PrefillMessages(opts)
      [] p = "groq" -> SystemMessages(opts) \o initial \o PrefillMessages(opts)
      [] p = "bedrock" ->
            [i \in 1..Len(SystemMessages(opts) \o initial) |->
                [(SystemMessages(opts) \o initial)[i] EXCEPT !.content = StripForbidden(@)]]
      [] p = "completions" -> initial

\* buildPrompt: the role switch of the single-string variant
UnsupportedRoles(p, msgs) ==
    IF p \in {"bedrock", "completions"}
    THEN SelectSeq(msgs, LAMBDA m : m.role \notin {"user", "assistant", "system"})
    ELSE <<>>

PromptTurn(m) ==
    (IF m.role = "assistant" THEN AI_PROMPT ELSE HUMAN_PROMPT) \o <<" ">> \o m.content

buildPrompt(msgs, opts) ==
    FlatSeq([i \in 1..Len(msgs) |-> PromptTurn(msgs[i])]) \o AI_PROMPT
    \o (IF Truthy(opts.responsePrefix) THEN <<" ">> \o opts.responsePrefix ELSE <<>>)

\* the texts handed to the token estimator
EstimatedTexts(p, msgs, opts) ==
    IF p = "bedrock" THEN << buildPrompt(msgs, opts) >>
    ELSE IF p = "completions" THEN << buildPrompt(msgs, NoOptions) >>
    ELSE [i \in 1..Len(msgs) |-> OrElse(msgs[i].content, <<>>)]

UserOrAssistant(m) == m.role \in {"user", "assistant"} /\ Truthy(m.content)

\* a map that sends a tool message under its own role
LegacyWireMessageKeepsRole(m) ==
    IF m.role = "assistant"
    THEN [Msg("assistant", m.content) EXCEPT !.toolCall =
             IF m.toolCall.def THEN [m.toolCall EXCEPT !.id = UNDEF, !.type = "undefined"]
             ELSE NoCall]
    ELSE [Msg(m.role, m.content) EXCEPT !.toolCallId = m.toolCallId]

\* messages.map of the legacy orchestrator: an assistant message carries
\* function_call: m.toolCall?.function, a tool message goes out as a user message
LegacyWireMessage(m) ==
    IF m.role = "assistant"
    THEN [Msg("assistant", m.content) EXCEPT !.toolCall =
             IF m.toolCall.def THEN [m.toolCall EXCEPT !.id = UNDEF, !.type = "undefined"]
             ELSE NoCall]
    ELSE IF m.role = "tool" THEN Msg("user", m.content)
    ELSE Msg(m.role, m.content)

\* the request body handed to the provider
WireRequest(p, msgs, opts) ==
    CASE p \in {"openai", "edge"} ->
            [NoWire EXCEPT !.messages = msgs]
      [] p = "legacy" ->
            [NoWire EXCEPT !.messages =
                [i \in 1..Len(msgs) |-> LegacyWireMessage(msgs[i])]]
      [] p = "anthropic" ->
            [NoWire EXCEPT !.messages =
                            [i \in 1..Len(SelectSeq(msgs, UserOrAssistant)) |->
                                Msg(SelectSeq(msgs, UserOrAssistant)[i].role,
                                    SelectSeq(msgs, UserOrAssistant)[i].content)],
                           !.system = IF Truthy(opts.systemMessage) THEN opts.systemMessage ELSE UNDEF]
      [] p = "groq" ->
            [NoWire EXCEPT !.messages =
                            [i \in 1..Len(SelectSeq(msgs, UserOrAssistant)) |->
                                Msg(SelectSeq(msgs, UserOrAssistant)[i].role,
                                    SelectSeq(msgs, UserOrAssistant)[i].content)]]
      [] p = "bedrock" ->
            [NoWire EXCEPT !.messages = msgs, !.prompt = buildPrompt(msgs, opts)]
      [] p = "completions" ->
            [NoWire EXCEPT !.messages = msgs, !.prompt = buildPrompt(msgs, NoOptions)]

-----------------------------------------------------------------------------
(* Response classification and the envelope *)

Whitespace == {" ", "\n", "\t"}

RECURSIVE TrimStart(_)
TrimStart(t) == IF t # <<>> /\ Head(t) \in Whitespace THEN TrimStart(Tail(t)) ELSE t

RECURSIVE TrimEnd(_)
TrimEnd(t) ==
    IF t # <<>> /\ t[Len(t)] \in Whitespace THEN TrimEnd(SubSeq(t, 1, Len(t) - 1)) ELSE t

\* String.prototype.trim
Trim(t) == TrimEnd(TrimStart(t))

\* a finalization that trims the completion before it prepends the prefix
PrefixedContentTrimmed(p, opts, text) ==
    IF p = "completions" THEN Trim(text)
    ELSE IF Truthy(opts.responsePrefix) THEN opts.responsePrefix \o Trim(text)
    ELSE IF p = "groq" THEN text
    ELSE Trim(text)

\* the finalized content of the Anthropic-style orchestrators
\* responsePrefix ? responsePrefix + completion : completion.trim()
PrefixedContent(p, opts, text) ==
    IF p = "completions" THEN Trim(text)
    ELSE IF Truthy(opts.responsePrefix) THEN opts.responsePrefix \o text
    ELSE IF p = "groq" THEN text
    ELSE Trim(text)

\* the list the respond closure spreads in front of the received message
RespondBase(p, initial, msgs) == IF p = "anthropic" THEN initial ELSE msgs

MalformedError == [NoError EXCEPT !.type = "Malformed"]

TextEnvelope(content, base, opts) ==
    [NoResponse EXCEPT !.def = TRUE, !.message = Msg("assistant", content),
                       !.content = content, !.history = base, !.options = opts]

\* parseUnsafeJson(json) = jsonic(jsonrepair(json)): the parser is external; the
\* parsed value is kept as the text it was parsed from, tagged
parseUnsafeJson(json) == << "json" >> \o json

\* the texts the parser rejects by throwing: a text that opens with a closing bracket
\* stands for them
Unparsable(json) == json # <<>> /\ json[1] = "]"

\* the error the parser throws: it carries no transport code
ParseError == [NoError EXCEPT !.type = "Parse"]

CallEnvelope(p, call, base, opts) ==
    [NoResponse EXCEPT !.def = TRUE,
                       !.message = [Msg("assistant", <<>>) EXCEPT !.toolCall =
                                       CASE p = "legacy" -> [call EXCEPT !.id = <<"1">>, !.type = "function"]
                                         [] p = "edge" -> [call EXCEPT !.id = UNDEF, !.type = "undefined"]
                                         [] OTHER -> call],
                       !.toolCallId = IF p = "openai" THEN call.id ELSE UNDEF,
                       !.name = call.name, !.arguments = parseUnsafeJson(call.arguments),
                       !.history = base, !.options = opts]

\* a classification that looks at the call first
ClassifyCallFirst(p, text, call, base, opts) ==
    IF p \in {"openai", "legacy", "edge"}
    THEN IF call.def THEN [ok |-> TRUE, env |-> CallEnvelope(p, call, base, opts)]
         ELSE IF Truthy(text) THEN [ok |-> TRUE, env |-> TextEnvelope(text, base, opts)]
         ELSE [ok |-> FALSE, env |-> NoResponse]
    ELSE IF Truthy(PrefixedContent(p, opts, text))
         THEN [ok |-> TRUE, env |-> TextEnvelope(PrefixedContent(p, opts, text), base, opts)]
         ELSE [ok |-> FALSE, env |-> NoResponse]

\* a classification whose parser never throws
ClassifyParserTotal(p, text, call, base, opts) ==
    IF p \in {"openai", "legacy", "edge"}
    THEN IF Truthy(text) THEN [ok |-> TRUE, env |-> TextEnvelope(text, base, opts)]
         ELSE IF call.def THEN [ok |-> TRUE, env |-> CallEnvelope(p, call, base, opts)]
         ELSE [ok |-> FALSE, env |-> NoResponse]
    ELSE IF Truthy(PrefixedContent(p, opts, text))
         THEN [ok |-> TRUE, env |-> TextEnvelope(PrefixedContent(p, opts, text), base, opts)]
         ELSE [ok |-> FALSE, env |-> NoResponse]

\* a classification that returns a text envelope for an empty text
ClassifyEmptyText(p, text, call, base, opts) ==
    IF p \in {"openai", "legacy", "edge"}
    THEN IF Truthy(text) THEN [ok |-> TRUE, env |-> TextEnvelope(text, base, opts)]
         ELSE IF call.def THEN [ok |-> TRUE, env |-> CallEnvelope(p, call, base, opts)]
         ELSE [ok |-> TRUE, env |-> TextEnvelope(text, base, opts)]
    ELSE IF Truthy(PrefixedContent(p, opts, text))
         THEN [ok |-> TRUE, env |-> TextEnvelope(PrefixedContent(p, opts, text), base, opts)]
         ELSE [ok |-> FALSE, env |-> NoResponse]

\* what chatCompletion returns or throws for the accumulated text and call:
\* [ok |-> TRUE, env |-> envelope] or [ok |-> FALSE, env |-> NoResponse]
Classify(p, text, call, base, opts) ==
    IF p \in {"openai", "legacy", "edge"}
    THEN IF Truthy(text) THEN [ok |-> TRUE, env |-> TextEnvelope(text, base, opts)]
         ELSE IF call.def
         THEN IF Unparsable(call.arguments) THEN [ok |-> FALSE, env |-> NoResponse]
              ELSE [ok |-> TRUE, env |-> CallEnvelope(p, call, base, opts)]
         ELSE [ok |-> FALSE, env |-> NoResponse]
    ELSE IF Truthy(PrefixedContent(p, opts, text))
         THEN [ok |-> TRUE, env |-> TextEnvelope(PrefixedContent(p, opts, text), base, opts)]
         ELSE [ok |-> FALSE, env |-> NoResponse]

\* the error thrown where Classify returns no envelope: the parser's error when the
\* envelope of a call was being built, 'Completion response malformed' otherwise
ClassifyError(p, text, call) ==
    IF p \in {"openai", "legacy", "edge"} /\ ~Truthy(text) /\ call.def
    THEN ParseError ELSE MalformedError

\* usage ? { totalTokens: usage.total_tokens, ... } : undefined, where the
\* orchestrator reads response.usage at all
EnvelopeUsage(p, u) ==
    IF p \in {"openai", "legacy", "edge"} /\ u.def
    THEN [def |-> TRUE, totalTokens |-> u.total_tokens, promptTokens |-> u.prompt_tokens,
          completionTokens |-> u.completion_tokens]
    ELSE NoEnvelopeUsage

\* typeof message === 'string' ? { role: ..., content: message } : message
WrapMessage(p, env, m) ==
    IF ~m.isString THEN m.msg
    ELSE IF p = "openai" /\ env.content = UNDEF
         THEN [Msg("tool", m.text) EXCEPT !.toolCallId = env.message.toolCall.id]
         ELSE Msg("user", m.text)

\* the options respond hands to chatCompletion when no override is given:
\* opt ?? requestOptions, and plain opt in the text-completions orchestrator
RespondOptions(p, opts) == IF p = "completions" THEN NoOptions ELSE opts

\* the message list respond hands to chatCompletion
RespondMessages(p, env, m) == env.history \o << env.message, WrapMessage(p, env, m) >>

-----------------------------------------------------------------------------
(* Retry decision of the fetch-based OpenAI client *)

RetryCodes == {"ETIMEDOUT", "ECONNABORTED", "ECONNRESET"}

CatchRetriesAnyError(opts, err) == opts.retries.v # 0

\* the catch block: if (!retries) throw error; if (error.code is a transport code) retry; throw error
CatchRetries(opts, err) == opts.retries.v # 0 /\ err.code \in RetryCodes

\* where a thrown error leaves the call: only the fetch-based client has a catch block
Thrown(p, opts, err) == IF p = "edge" /\ CatchRetries(opts, err) THEN "sleeping" ELSE "failed"

-----------------------------------------------------------------------------
(* Inputs *)

MaxResponds == 1

\* the last text holds a turn marker wrapped around a second one
InputTexts ==
    { <<"a">>, <<"x", "y", "z">>,
      <<"H", "u">> \o ForbiddenTokens[1] \o <<"m", "a", "n", ":">> }

InputMessages ==
    { Msg("user", t) : t \in InputTexts }
    \cup { [Msg("tool", <<"r">>) EXCEPT !.toolCallId = <<"c">>] }

InitialLists ==
    { <<m>> : m \in InputMessages } \cup { << Msg("user", <<"a">>), Msg("user", <<"x", "y", "z">>) >> }

InputOptions ==
    { [NoOptions EXCEPT !.systemMessage = s, !.responsePrefix = r, !.minimumResponseTokens = m] :
        s \in {UNDEF, <<"s", "y">>}, r \in {UNDEF, <<"p">>}, m \in {NoNum, Num(90)} }

ContextSizes == { NoNum, Num(0), Num(100) }

ProviderTexts == { <<>>, <<" ", "o", "\n">> }

ProviderCalls ==
    { NoCall,
      [def |-> TRUE, id |-> <<"c">>, type |-> "function", name |-> <<"f">>, arguments |-> <<"{", "}">>],
      [def |-> TRUE, id |-> <<"c">>, type |-> "function", name |-> <<"f">>, arguments |-> <<"]">>] }

ProviderUsages ==
    { NoUsage, [def |-> TRUE, total_tokens |-> 5, prompt_tokens |-> 3, completion_tokens |-> 2] }

ProviderBodies(p) ==
    { [kind |-> "choices", content |-> t, toolCall |-> c, usage |-> u] :
        t \in ProviderTexts,
        c \in IF p \in {"openai", "legacy", "edge"} THEN ProviderCalls ELSE {NoCall},
        u \in ProviderUsages }

RespondInputs ==
    { [isString |-> TRUE, text |-> <<"b">>, msg |-> Msg("none", UNDEF)],
      [isString |-> FALSE, text |-> UNDEF, msg |-> Msg("user", <<"a">>)] }

OverrideOptions == { [NoOptions EXCEPT !.minimumResponseTokens = Num(90)] }

-----------------------------------------------------------------------------
(* chatCompletion *)

\* chatCompletion from its entry to the provider request (or the throw before it)
Enter(msgs, opts, how, sent) ==
    LET final == Defaults(opts)
        built == BuildMessages(provider, msgs, final)
        bad == UnsupportedRoles(provider, built)
        budget == Budget(provider, contextSize, final)
        tokens == getTokensFromPrompt(EstimatedTexts(provider, built, final), UNDEF)
    IN  /\ via' = how
        /\ initialMessages' = msgs
        /\ requestOptions' = final
        /\ messages' = built
        /\ IF bad # <<>>
           THEN /\ error' = [NoError EXCEPT !.type = "UnsupportedRole", !.role = bad[1].role]
                /\ pc' = Thrown(provider, final, error')
                /\ maxPromptTokens' = NoNum
                /\ messageTokens' = NoNum
                /\ UNCHANGED wire
                /\ netCalls' = sent
           ELSE /\ maxPromptTokens' = Num(budget)
                /\ messageTokens' = Num(tokens)
                /\ IF TokenOverflow(tokens, budget)
                   THEN /\ error' = TokenError(tokens, budget)
                        /\ pc' = Thrown(provider, final, error')
                        /\ UNCHANGED wire
                        /\ netCalls' = sent
                   ELSE /\ error' = NoError
                        /\ pc' = "requesting"
                        /\ wire' = [WireRequest(provider, built, final) EXCEPT
                                        !.maxTokens = MaxTokens(provider, contextSize, final, tokens),
                                        !.stop = WireStop(provider, final)]
                        /\ netCalls' = sent + 1

StreamVars == <<stream, completion, streamParts, events, feed, fragments>>

RetryVars == <<sleeps, attempt, given>>

\* defaults(requestOptions, RequestDefaults) assigns into the object it is given and
\* returns it: the object the caller holds gets every default it left undefined
CallerObjectAfterDefaults(opts) == Defaults(opts)

\* the caller calls chatCompletion(messages, options)
Call(msgs, opts) ==
    /\ pc = "idle"
    /\ Enter(msgs, opts, "call", 0)
    /\ parent' = NoParent
    /\ given' = [messages |-> msgs, options |-> opts,
                 object |-> CallerObjectAfterDefaults(opts)]
    /\ UNCHANGED <<other, provider, contextSize, response, chain, body, sleeps, attempt,
                   StreamVars>>

\* the provider answers the (non-streaming) request with one body
ProviderReply(b) ==
    /\ pc = "requesting"
    /\ LET r == Classify(provider, OrElse(b.content, <<>>), b.toolCall,
                         RespondBase(provider, initialMessages, messages), requestOptions)
       IN  IF r.ok
           THEN /\ response' = [r.env EXCEPT !.usage = EnvelopeUsage(provider, b.usage)]
                /\ pc' = "returned"
                /\ UNCHANGED error
           ELSE /\ error' = ClassifyError(provider, OrElse(b.content, <<>>), b.toolCall)
                /\ pc' = Thrown(provider, requestOptions, error')
                /\ UNCHANGED response
    /\ body' = b
    /\ UNCHANGED <<other, provider, contextSize, via, initialMessages, requestOptions, messages,
                   maxPromptTokens, messageTokens, wire, netCalls, parent, chain,
                   RetryVars, StreamVars>>

\* the caller calls response.respond(message, opt)
Respond(m, opt, overridden) ==
    /\ pc = "returned"
    /\ chain < MaxResponds
    \* the text-completions respond takes a ChatRequestMessage only
    /\ provider = "completions" => ~m.isString
    /\ Enter(RespondMessages(provider, response, m),
             IF overridden THEN opt ELSE RespondOptions(provider, response.options),
             "respond", 0)
    /\ parent' = [def |-> TRUE, original |-> initialMessages, received |-> response.message,
                  wrapped |-> WrapMessage(provider, response, m), override |-> overridden,
                  options |-> requestOptions, opt |-> IF overridden THEN opt ELSE NoOptions,
                  input |-> m]
    /\ chain' = chain + 1
    /\ UNCHANGED <<other, provider, contextSize, response, body, RetryVars, StreamVars>>

\* the locals of a chatCompletion call that has not started
NoFrame ==
    [pc |-> "idle", via |-> "none", initialMessages |-> <<>>, requestOptions |-> NoOptions,
     messages |-> <<>>, maxPromptTokens |-> NoNum, messageTokens |-> NoNum, wire |-> NoWire,
     netCalls |-> 0, error |-> NoError, response |-> NoResponse, parent |-> NoParent,
     chain |-> 0, sleeps |-> <<>>, attempt |-> NoAttempt, given |-> NoGiven,
     completion |-> <<>>, streamParts |-> <<>>, events |-> <<>>, feed |-> NoFeed,
     fragments |-> <<>>, body |-> NoBody]

InitWith(clients, contexts, streaming) ==
    /\ provider \in clients
    /\ contextSize \in contexts
    /\ pc = "idle"
    /\ via = "none"
    /\ initialMessages = <<>>
    /\ requestOptions = NoOptions
    /\ messages = <<>>
    /\ maxPromptTokens = NoNum
    /\ messageTokens = NoNum
    /\ wire = NoWire
    /\ netCalls = 0
    /\ error = NoError
    /\ response = NoResponse
    /\ parent = NoParent
    /\ chain = 0
    /\ sleeps = <<>>
    /\ attempt = NoAttempt
    /\ given = NoGiven
    /\ stream = streaming
    /\ completion = <<>>
    /\ streamParts = <<>>
    /\ events = <<>>
    /\ feed = NoFeed
    /\ fragments = <<>>
    /\ body = NoBody
    /\ other = NoFrame

Init == InitWith(Providers, ContextSizes, FALSE)

Next ==
    \/ \E msgs \in InitialLists, opts \in InputOptions : Call(msgs, opts)
    \/ \E b \in ProviderBodies(provider) : ProviderReply(b)
    \/ \E m \in RespondInputs : Respond(m, NoOptions, FALSE)
    \/ \E m \in RespondInputs, opt \in OverrideOptions : Respond(m, opt, TRUE)

Spec == Init /\ [][Next]_vars

-----------------------------------------------------------------------------
(* Properties of the budget guard and of respond *)

\* the budget the specification states: contextSize - minimumResponseTokens
\* whenever contextSize is defined
StatedBudget ==
    IF contextSize.def THEN contextSize.v - requestOptions.minimumResponseTokens.v
    ELSE DefaultMaxPromptTokens

\* C1: on a client with contextSize = C and minimumResponseTokens = M, a call
\* whose estimate E exceeds C - M fails with TokenError(overflow = E - (C - M))
\* and issues no provider request.
C1_OverflowRaisesTokenError ==
    (contextSize.def /\ messageTokens.def
        /\ messageTokens.v > contextSize.v - requestOptions.minimumResponseTokens.v)
    => /\ pc = "failed"
       /\ error.type = "TokenError"
       /\ error.overflow = messageTokens.v - (contextSize.v - requestOptions.minimumResponseTokens.v)
       /\ netCalls = 0

\* C2: respond re-invokes chatCompletion with the caller's original,
\* unprocessed message list followed by the received assistant message and
\* the wrapped message, for every orchestrator.
C2_RespondKeepsOriginalHistory ==
    (via = "respond" /\ parent.def)
    => initialMessages = parent.original \o << parent.received, parent.wrapped >>

\* the number of times a request carries a system message
SystemCount(w) ==
    Len(SelectSeq(w.messages, LAMBDA m : m.role = "system"))
    + (IF w.system # UNDEF THEN 1 ELSE 0)

\* C3: along a chain of respond calls without an options override, with a
\* systemMessage in the original options, every request sent to the provider
\* contains the system message exactly once.
C3_SystemMessageOncePerRequest ==
    (via = "respond" /\ ~parent.override /\ Truthy(requestOptions.systemMessage)
        /\ netCalls > 0)
    => SystemCount(wire) = 1

\* C11: respond without an options override re-invokes chatCompletion with the
\* RequestOptions that produced the response, for every orchestrator; an
\* override, when given, replaces them entirely.
C11_RespondReusesOptions ==
    (via = "respond" /\ parent.def)
    => IF parent.override
       THEN requestOptions = Defaults(parent.opt)
       ELSE requestOptions = parent.options

\* C12: in respond a bare string after a text response is appended as a
\* user-role message; a bare string after a tool-call response is appended as a
\* tool-role message whose toolCallId is the id of the tool call of the
\* preceding assistant message; a structured message is appended unchanged.
C12_RespondWrapsMessage ==
    (via = "respond" /\ parent.def)
    => LET n == Len(initialMessages)
           last == initialMessages[n]
           prev == initialMessages[n - 1]
       IN  /\ n >= 2
           /\ prev = parent.received
           /\ IF ~parent.input.isString THEN last = parent.input.msg
              ELSE IF prev.toolCall.def
                   THEN /\ last.role = "tool"
                        /\ last.content = parent.input.text
                        /\ last.toolCallId = prev.toolCall.id
                   ELSE last = Msg("user", parent.input.text)

\* C15: every envelope the OpenAI orchestrators return carries exactly one
\* payload, content or name/arguments, never both and never neither; when the
\* provider response holds non-empty text and a call, the text is selected.
C15_ExactlyOnePayload ==
    (pc = "returned" /\ provider \in {"openai", "legacy"})
    => /\ response.def
       /\ (response.content # UNDEF) # (response.name # UNDEF)
       /\ (response.name # UNDEF) <=> (response.arguments # UNDEF)
       /\ response.content # UNDEF => Truthy(response.content)
       /\ Truthy(body.content)
          => (response.content = body.content /\ response.name = UNDEF
              /\ ~response.message.toolCall.def)
       /\ ~Truthy(body.content)
          => (response.name = body.toolCall.name /\ response.message.toolCall.def)

C15_Witness ==
    /\ pc = "returned"
    /\ provider = "legacy"
    /\ Truthy(body.content)
    /\ body.toolCall.def
    /\ response.content = body.content
    /\ response.name = UNDEF

\* C16: the envelope's usage equals the prompt/completion/total token counts
\* the provider reported when the provider response reports usage, and is
\* absent otherwise; usage is never fabricated.
C16_UsageCopiedThrough ==
    pc = "returned"
    => IF body.usage.def
       THEN response.usage = [def |-> TRUE, totalTokens |-> body.usage.total_tokens,
                              promptTokens |-> body.usage.prompt_tokens,
                              completionTokens |-> body.usage.completion_tokens]
       ELSE ~response.usage.def

\* c is t without its leading and trailing whitespace
IsTrimOf(c, t) ==
    /\ c # <<>> => (c[1] \notin Whitespace /\ c[Len(c)] \notin Whitespace)
    /\ \E a \in 0..Len(t) :
          /\ a + Len(c) <= Len(t)
          /\ SubSeq(t, a + 1, a + Len(c)) = c
          /\ \A k \in 1..Len(t) : (k <= a \/ k > a + Len(c)) => t[k] \in Whitespace

NoToolRole == {"anthropic", "groq", "bedrock", "completions"}

\* C20: for every orchestrator, a message of the input list whose role the
\* provider does not support and for which no remapping rule exists (a
\* tool-role message for Anthropic/Bedrock) makes chatCompletion fail with an
\* error naming the role, before any request; it is never silently dropped.
C20_UnsupportedRoleFails ==
    (pc # "idle" /\ provider \in NoToolRole
        /\ \E i \in 1..Len(initialMessages) : initialMessages[i].role = "tool")
    => /\ pc = "failed"
       /\ error.type = "UnsupportedRole"
       /\ error.role = "tool"
       /\ netCalls = 0

\* C21: in the legacy function-calling orchestrator every tool-role message of
\* the input list goes to the provider as a user-role message with the same
\* content and no tool call id; number and order of the messages are kept.
C21_LegacyToolBecomesUser ==
    (provider = "legacy" /\ netCalls > 0)
    => LET off == Len(wire.messages) - Len(initialMessages)
       IN  /\ off = (IF Truthy(requestOptions.systemMessage) THEN 1 ELSE 0)
           /\ \A i \in 1..Len(initialMessages) :
                 LET m == initialMessages[i]
                     w == wire.messages[i + off]
                 IN  /\ w.content = m.content
                     /\ w.toolCallId = UNDEF
                     /\ w.role = (IF m.role = "tool" THEN "user" ELSE m.role)

C21_Witness ==
    /\ provider = "legacy"
    /\ netCalls > 0
    /\ Len(wire.messages) = 2
    /\ initialMessages[1].role = "tool"
    /\ initialMessages[1].toolCallId = <<"c">>
    /\ wire.messages[2] = Msg("user", <<"r">>)

Contains(text, tok) ==
    \E i \in 1..Len(text) :
        i + Len(tok) - 1 <= Len(text) /\ SubSeq(text, i, i + Len(tok) - 1) = tok

Occurrences(text, tok) ==
    Cardinality({ i \in 1..Len(text) :
                    i + Len(tok) - 1 <= Len(text) /\ SubSeq(text, i, i + Len(tok) - 1) = tok })

\* C22: in the single-string (Bedrock) normalizer the content placed into the
\* prompt after stripping holds neither turn marker ("Human:", "Assistant:"),
\* also when removing one occurrence brings the surrounding characters
\* together; the prompt has one turn boundary per message plus the trailing
\* assistant turn.
C22_StrippedContentHasNoMarker ==
    (provider = "bedrock" /\ netCalls > 0)
    => /\ \A i \in 1..Len(messages) :
             /\ ~Contains(messages[i].content, ForbiddenTokens[1])
             /\ ~Contains(messages[i].content, ForbiddenTokens[2])
       /\ Occurrences(wire.prompt, ForbiddenTokens[1])
            + Occurrences(wire.prompt, ForbiddenTokens[2]) = Len(messages) + 1

\* C32: in the Anthropic and Groq orchestrators a provider completion that is empty
\* after trimming fails as malformed, also with a responsePrefix: no envelope is
\* returned for it, in particular none whose content is the caller's prefix alone.
C32_EmptyCompletionIsMalformed ==
    (provider \in {"anthropic", "groq"} /\ pc = "returned")
    => /\ Trim(OrElse(body.content, <<>>)) # <<>>
       /\ response.content # requestOptions.responsePrefix

\* the positions of the request's messages that are a prefill: an assistant message
\* whose content is the response prefix alone
PrefillPositions(w, opts) ==
    { i \in 1..Len(w.messages) :
        w.messages[i].role = "assistant" /\ w.messages[i].content = opts.responsePrefix }

\* C34: in the Groq orchestrator, along a chain of respond calls made with options
\* carrying systemMessage and responsePrefix, every request sent to the provider
\* holds at most one prefill assistant message, and it is the last message.
C34_GroqOnePrefillLast ==
    (provider = "groq" /\ pc = "requesting"
        /\ Truthy(requestOptions.systemMessage) /\ Truthy(requestOptions.responsePrefix))
    => PrefillPositions(wire, requestOptions) \subseteq {Len(wire.messages)}

\* the texts a request carries to the provider: the system text, if any, and the
\* content of each message
SentTexts(w) ==
    (IF w.system # UNDEF THEN << w.system >> ELSE <<>>)
    \o [i \in 1..Len(w.messages) |-> w.messages[i].content]

\* C35: in the native Anthropic orchestrator the texts passed to the token estimator
\* are exactly the texts sent to the provider: the system message is counted when
\* one is set, and messages removed by the role/empty-content filter are not.
C35_AnthropicEstimatesWhatItSends ==
    (provider = "anthropic" /\ pc = "requesting")
    => /\ EstimatedTexts(provider, messages, requestOptions) = SentTexts(wire)
       /\ messageTokens = Num(getTokensFromPrompt(SentTexts(wire), UNDEF))

\* C37: a chatCompletion call does not add, remove or change any property of the
\* requestOptions object the caller passed: the caller's object is the same before
\* and after the call.
C37_CallerOptionsUntouched ==
    pc # "idle" => given.object = given.options

\* C9: the guard fails only if the estimate exceeds the budget: with
\* E <= budget (E = budget included) no TokenError is raised and the request
\* goes to the provider.
C9_WithinBudgetProceeds ==
    /\ (messageTokens.def /\ messageTokens.v <= maxPromptTokens.v)
       => (error.type # "TokenError" /\ netCalls = 1)
    /\ (messageTokens.def /\ messageTokens.v <= StatedBudget)
       => (error.type # "TokenError" /\ netCalls = 1)

C9_Witness ==
    /\ pc = "requesting"
    /\ messageTokens.def
    /\ messageTokens.v = maxPromptTokens.v
    /\ netCalls = 1

\* C10: the prompt budget is contextSize - minimumResponseTokens for every
\* defined contextSize (0 included); the default of 100,000 is used only when
\* contextSize is not configured.
C10_BudgetFromDefinedContextSize ==
    maxPromptTokens.def => maxPromptTokens.v = StatedBudget

-----------------------------------------------------------------------------
(* The fetch-based OpenAI client: HTTP status handling, catch block, retries *)

MaxFailures == 3

RetryInputs ==
    { [NoOptions EXCEPT !.systemMessage = s, !.minimumResponseTokens = m,
                        !.retries = r, !.retryInterval = i] :
        s \in {UNDEF, <<"s", "y">>}, m \in {NoNum, Num(80), Num(90)},
        r \in {NoNum, Num(0), Num(1), Num(2)}, i \in {NoNum, Num(1)} }

RetryLists == { << Msg("user", <<"a">>) >>, << Msg("user", <<"x", "y", "z">>) >> }

ErrorStatuses == {401, 429, 500, 503}

BodyStatuses == {200, 400}

\* "AbortError": the rejection of the fetch once the timeout's controller.abort()
\* has fired; it carries none of the retry codes
TransportCodes == RetryCodes \cup {"AbortError"}

ErrorBody == [kind |-> "error", content |-> UNDEF, toolCall |-> NoCall, usage |-> NoUsage]

\* if (!completion.ok) { 401: throw; 429 or >= 500: sleep and retry } and otherwise read the body
StatusStep(status) ==
    CASE status = 200 -> "body"
      [] status = 401 -> "throw"
      [] status = 429 \/ status >= 500 -> "retry"
      [] OTHER -> "body"

\* { ...finalRequestOptions, retries: retries - 1, retryInterval: retryInterval * 2 }
RetryOptionsSameInterval(opts) == [opts EXCEPT !.retries = Num(@.v - 1)]

RetryOptions(opts) ==
    [opts EXCEPT !.retries = Num(@.v - 1), !.retryInterval = Num(@.v * 2)]

CallerObjectSharedWithRetry(obj, opts) == RetryOptions(opts)

\* the retry is handed { ...finalRequestOptions, retries: ..., retryInterval: ... }, an
\* object literal: the object the caller holds is not written
CallerObjectAfterRetry(obj, opts) == obj

\* the caller calls chatCompletion on the fetch-based client
CallEdge(msgs, opts) ==
    /\ pc = "idle"
    /\ Enter(msgs, opts, "call", 0)
    /\ given' = [messages |-> msgs, options |-> opts,
                 object |-> CallerObjectAfterDefaults(opts)]
    /\ sleeps' = <<>>
    /\ attempt' = NoAttempt
    /\ UNCHANGED <<other, provider, contextSize, response, parent, chain, body, StreamVars>>

\* the provider answers with a status the client handles without reading the body
HttpError(status) ==
    /\ pc = "requesting"
    /\ netCalls <= MaxFailures
    /\ attempt' = [NoAttempt EXCEPT !.kind = "status", !.status = status]
    /\ IF StatusStep(status) = "throw"
       THEN /\ error' = [NoError EXCEPT !.type = "Authorization"]
            /\ pc' = Thrown(provider, requestOptions, error')
            /\ sleeps' = IF pc' = "sleeping"
                         THEN Append(sleeps, requestOptions.retryInterval.v) ELSE sleeps
       ELSE /\ StatusStep(status) = "retry"
            /\ error' = NoError
            /\ pc' = "sleeping"
            /\ sleeps' = Append(sleeps, requestOptions.retryInterval.v)
    /\ UNCHANGED <<other, provider, contextSize, via, initialMessages, requestOptions, messages,
                   maxPromptTokens, messageTokens, wire, netCalls, response, parent,
                   chain, given, body, StreamVars>>

\* the provider answers with a status after which the client reads the JSON body
HttpBody(status, b) ==
    /\ pc = "requesting"
    /\ StatusStep(status) = "body"
    /\ status # 200 => b.kind = "error"
    /\ attempt' = [NoAttempt EXCEPT !.kind = "body", !.status = status]
    /\ body' = b
    /\ LET r == Classify(provider, b.content, b.toolCall,
                         RespondBase(provider, initialMessages, messages), requestOptions)
       IN  IF b.kind = "error"
           THEN /\ error' = [NoError EXCEPT !.type = "ProviderError"]
                /\ pc' = Thrown(provider, requestOptions, error')
                /\ UNCHANGED response
           ELSE IF r.ok
           THEN /\ response' = [r.env EXCEPT !.usage = EnvelopeUsage(provider, b.usage)]
                /\ pc' = "returned"
                /\ UNCHANGED error
           ELSE /\ error' = ClassifyError(provider, b.content, b.toolCall)
                /\ pc' = Thrown(provider, requestOptions, error')
                /\ UNCHANGED response
    /\ sleeps' = IF pc' = "sleeping"
                 THEN Append(sleeps, requestOptions.retryInterval.v) ELSE sleeps
    /\ UNCHANGED <<other, provider, contextSize, via, initialMessages, requestOptions, messages,
                   maxPromptTokens, messageTokens, wire, netCalls, parent, chain, given,
                   StreamVars>>

\* the request rejects with an error carrying a code
TransportError(code) ==
    /\ pc = "requesting"
    /\ netCalls <= MaxFailures
    /\ attempt' = [NoAttempt EXCEPT !.kind = "transport", !.code = code]
    /\ error' = [NoError EXCEPT !.type = "Transport", !.code = code]
    /\ pc' = Thrown(provider, requestOptions, error')
    /\ sleeps' = IF pc' = "sleeping"
                 THEN Append(sleeps, requestOptions.retryInterval.v) ELSE sleeps
    /\ UNCHANGED <<other, provider, contextSize, via, initialMessages, requestOptions, messages,
                   maxPromptTokens, messageTokens, wire, netCalls, response, parent,
                   chain, given, body, StreamVars>>

\* the sleep ends: return this.chatCompletion(messages, { ...finalRequestOptions, ... })
Wake ==
    /\ pc = "sleeping"
    /\ Enter(messages, RetryOptions(requestOptions), "retry", netCalls)
    /\ attempt' = NoAttempt
    /\ given' = [given EXCEPT !.object = CallerObjectAfterRetry(@, requestOptions)]
    /\ UNCHANGED <<other, provider, contextSize, response, parent, chain, sleeps, body,
                   StreamVars>>

InitRetry == InitWith({"edge"}, ContextSizes, FALSE)

NextRetry ==
    \/ \E msgs \in RetryLists, opts \in RetryInputs : CallEdge(msgs, opts)
    \/ \E status \in ErrorStatuses : HttpError(status)
    \/ \E status \in BodyStatuses, b \in ProviderBodies(provider) \cup {ErrorBody} : HttpBody(status, b)
    \/ \E code \in TransportCodes : TransportError(code)
    \/ Wake

SpecRetry == InitRetry /\ [][NextRetry]_vars

-----------------------------------------------------------------------------
(* Properties of the retry recursion *)

\* the retry count and interval the top-level call runs with
Retries0 == Defaults(given.options).retries.v

Interval0 == Defaults(given.options).retryInterval.v

RECURSIVE Pow2(_)
Pow2(n) == IF n <= 0 THEN 1 ELSE 2 * Pow2(n - 1)

\* a retryable failure, as the specification lists them
RetryableFailure(a) ==
    \/ a.kind = "status" /\ (a.status = 429 \/ a.status >= 500)
    \/ a.kind = "transport" /\ a.code \in {"ETIMEDOUT", "ECONNABORTED", "ECONNRESET"}

\* the provider answered with a usable body
SuccessfulAttempt(a, b) ==
    /\ a.kind = "body"
    /\ b.kind = "choices"
    /\ \/ Truthy(b.content)
       \/ b.toolCall.def /\ ~Unparsable(b.toolCall.arguments)

\* C4: under any sequence of retryable failures one chatCompletion call with
\* retries = r issues at most r + 1 provider requests.
C4_AtMostRetriesPlusOneRequests ==
    pc # "idle" => netCalls <= Retries0 + 1

\* C5: for k <= retries consecutive retryable failures the sleep before the
\* i-th retry is initialInterval * 2^(i-1), the i-th retry runs with
\* retries - i, and the call returns the response of a successful attempt k+1.
C5_ExponentialBackoff ==
    /\ \A i \in 1..Len(sleeps) : i <= Retries0 => sleeps[i] = Interval0 * Pow2(i - 1)
    /\ (via = "retry" /\ pc # "sleeping" /\ Len(sleeps) <= Retries0)
       => requestOptions.retries.v = Retries0 - Len(sleeps)
    /\ (RetryableFailure(attempt) /\ netCalls <= Retries0)
       => (pc = "sleeping" /\ Len(sleeps) = netCalls)
    /\ (SuccessfulAttempt(attempt, body) /\ Len(sleeps) <= Retries0)
       => /\ pc = "returned"
          /\ response.def
          /\ IF Truthy(body.content) THEN response.content = body.content
             ELSE response.name = body.toolCall.name

C5_Witness ==
    /\ pc = "returned"
    /\ Len(sleeps) = 2
    /\ Retries0 >= 2
    /\ sleeps[2] = 2 * Interval0
    /\ Interval0 > 0
    /\ requestOptions.retries.v = Retries0 - 2
    /\ SuccessfulAttempt(attempt, body)

\* C13: a request that does not complete within the timeout is aborted and the
\* failure is handled as retryable: while retries remain the orchestrator
\* sleeps for the current interval and issues a new attempt with retries - 1.
C13_TimeoutIsRetried ==
    (attempt.kind = "transport" /\ attempt.code = "AbortError"
        /\ requestOptions.retries.v > 0)
    => /\ pc = "sleeping"
       /\ sleeps # <<>>
       /\ sleeps[Len(sleeps)] = requestOptions.retryInterval.v

NonRetryableErrors == {"Authorization", "Malformed", "ProviderError", "TokenError"}

\* C6: a non-retryable failure (401, malformed response, provider error body,
\* TokenError) propagates at once, with no sleep and no further request,
\* whatever the remaining retry count.
C6_NonRetryablePropagates ==
    error.type \in NonRetryableErrors
    => /\ pc = "failed"
       /\ Len(sleeps) = Retries0 - requestOptions.retries.v

C6_Witness ==
    /\ error.type = "Authorization"
    /\ pc = "failed"
    /\ requestOptions.retries.v > 0
    /\ Len(sleeps) = 1
    /\ netCalls = 2

UnparsableCallReceived ==
    /\ attempt.kind = "body"
    /\ body.kind = "choices"
    /\ ~Truthy(body.content)
    /\ body.toolCall.def
    /\ Unparsable(body.toolCall.arguments)

C25_UnparsableArgumentsThrow ==
    /\ [](UnparsableCallReceived
          => /\ pc = "failed"
             /\ error = ParseError
             /\ ~response.def
             /\ Len(sleeps) = Retries0 - requestOptions.retries.v
             /\ netCalls = Len(sleeps) + 1)
    /\ [][UnparsableCallReceived => UNCHANGED <<netCalls, sleeps, pc, response>>]_vars

C25_Witness ==
    /\ UnparsableCallReceived
    /\ pc = "failed"
    /\ error = ParseError
    /\ requestOptions.retries.v > 0
    /\ Len(sleeps) = 1

\* a provider connection that fails at transport level on every attempt
NextTransport ==
    \/ \E msgs \in RetryLists, opts \in RetryInputs : CallEdge(msgs, opts)
    \/ \E code \in RetryCodes : TransportError(code)
    \/ Wake

SpecTransport == InitRetry /\ [][NextTransport]_vars

\* C27: when every attempt fails with ETIMEDOUT, ECONNABORTED or ECONNRESET, a call
\* with retries = r >= 0 issues exactly r + 1 provider requests, sleeps r times, and
\* then throws the error of the last attempt unchanged.
C27_PersistentTransportFailure ==
    /\ pc # "idle" => netCalls <= Retries0 + 1 /\ Len(sleeps) <= Retries0
    /\ (attempt.kind = "transport" /\ netCalls <= Retries0) => pc = "sleeping"
    /\ (attempt.kind = "transport" /\ netCalls = Retries0 + 1)
       => /\ pc = "failed"
          /\ Len(sleeps) = Retries0
          /\ error = [NoError EXCEPT !.type = "Transport", !.code = attempt.code]
    /\ (pc = "failed" /\ netCalls > 0)
       => /\ error.type = "Transport"
          /\ netCalls = Retries0 + 1
          /\ Len(sleeps) = Retries0

\* the message list of the first attempt of the call
FirstAttemptMessages == BuildMessages(provider, given.messages, Defaults(given.options))

\* C28: every retry attempt made inside one chatCompletion call sends the provider
\* the message list of the first attempt; with a systemMessage option set, the list
\* of each attempt holds the system message exactly once.
C28_RetriesSendSameMessages ==
    (pc = "requesting" /\ netCalls > 0)
    => /\ wire.messages = FirstAttemptMessages
       /\ Truthy(given.options.systemMessage) => SystemCount(wire) = 1

\* The retry chain with its counters kept finite. A retry count below zero takes the
\* branches of -1 (`!retries` is false for each), the interval is only slept, and the
\* requests counted and the sleeps recorded are history: the count stops one below
\* zero, the interval at 2^MaxFailures times the first one, and the history keeps a
\* window of the last MaxFailures attempts.
SaturatedOptions(opts) ==
    LET top == Defaults(given.options).retryInterval.v * Pow2(MaxFailures)
    IN  [opts EXCEPT !.retries = Num(IF @.v < -1 THEN -1 ELSE @.v),
                     !.retryInterval = Num(IF @.v > top THEN top ELSE @.v)]

\* the sleep ends: return this.chatCompletion(messages, { ...finalRequestOptions, ... })
WakeLive ==
    /\ pc = "sleeping"
    /\ Enter(messages, SaturatedOptions(RetryOptions(requestOptions)), "retry",
             IF netCalls >= MaxFailures THEN MaxFailures - 1 ELSE netCalls)
    /\ attempt' = NoAttempt
    /\ sleeps' = IF Len(sleeps) >= MaxFailures THEN Tail(sleeps) ELSE sleeps
    /\ given' = [given EXCEPT !.object = CallerObjectAfterRetry(@, requestOptions)]
    /\ UNCHANGED <<other, provider, contextSize, response, parent, chain, body, StreamVars>>

\* without a system message the message list of a retry is the list of the attempt
\* before it
LiveInputs == { o \in RetryInputs : o.systemMessage = UNDEF }

\* the provider answers the request that is under way
ProviderAnswers ==
    \/ \E status \in ErrorStatuses : HttpError(status)
    \/ \E status \in BodyStatuses, b \in ProviderBodies(provider) \cup {ErrorBody} : HttpBody(status, b)
    \/ \E code \in TransportCodes : TransportError(code)

NextLive ==
    \/ \E msgs \in RetryLists, opts \in LiveInputs : CallEdge(msgs, opts)
    \/ ProviderAnswers
    \/ WakeLive

\* every request is answered and every sleep ends
SpecLive == InitRetry /\ [][NextLive]_vars /\ WF_vars(ProviderAnswers) /\ WF_vars(WakeLive)

\* C29: provided every provider request is eventually answered, every
\* chatCompletion call eventually returns an envelope or throws, for every retries
\* value and every pattern of provider failures, a provider that answers every
\* attempt with 429 or 5xx included.
C29_EveryCallEnds ==
    (pc = "requesting") ~> (pc \in {"returned", "failed"})

-----------------------------------------------------------------------------
(* Streaming aggregation: OpenAI (tool calls), OpenAI legacy (function calls), Anthropic *)

MaxStreamLen == 2

MaxFragments == 3

StreamProviders == {"openai", "legacy", "anthropic"}

StreamChars == {"o", " "}

RECURSIVE TextsUpTo(_, _)
TextsUpTo(chars, n) ==
    IF n = 0 THEN { <<>> }
    ELSE TextsUpTo(chars, n - 1)
         \cup { <<c>> \o t : c \in chars, t \in { u \in TextsUpTo(chars, n - 1) : Len(u) = n - 1 } }

StreamTexts == TextsUpTo(StreamChars, MaxStreamLen)

StreamCallNames == { <<"f">>, <<"f", "n">> }

StreamCallArgs == TextsUpTo({"{", "}"}, MaxStreamLen)

NoChunk == [type |-> "none", index |-> 0, content |-> UNDEF, call |-> NoCall]

\* `completion += text` on a text that arrives trimmed
StreamStepTrimmed(p, acc, chunk) ==
    IF p = "anthropic"
    THEN IF chunk.type \in {"content_block_start", "content_block_delta"} /\ chunk.index = 0
         THEN [acc EXCEPT !.completion = @ \o Trim(chunk.content),
                          !.events = Append(@, chunk.content)]
         ELSE acc
    ELSE IF Truthy(chunk.content)
         THEN [acc EXCEPT !.completion = @ \o Trim(chunk.content),
                          !.events = Append(@, chunk.content)]
         ELSE IF chunk.call.def THEN [acc EXCEPT !.parts = Append(@, chunk.call)]
         ELSE acc

\* the fetch-based client's emitMessage: `${part.name}: ${part.arguments}`,
\* part.arguments ?? '' or text ?? ''
EmitMessage(chunk) ==
    IF chunk.call.def
    THEN IF Truthy(chunk.call.name)
         THEN chunk.call.name \o <<":", " ">> \o chunk.call.arguments
         ELSE OrElse(chunk.call.arguments, <<>>)
    ELSE OrElse(chunk.content, <<>>)

\* the body of `for await (const part of stream)`; in the fetch-based client the
\* body of `for (const line of stringified)` for a line that parses
StreamStep(p, acc, chunk) ==
    IF p = "bedrock"
    THEN [acc EXCEPT !.completion = @ \o OrElse(chunk.content, <<>>),
                     !.events = Append(@, OrElse(chunk.content, <<>>))]
    ELSE IF p = "edge"
    THEN IF Truthy(chunk.content)
         THEN [acc EXCEPT !.completion = @ \o chunk.content,
                          !.events = Append(@, EmitMessage(chunk))]
         ELSE IF chunk.call.def
         THEN [acc EXCEPT !.parts = Append(@, chunk.call),
                          !.events = Append(@, EmitMessage(chunk))]
         ELSE [acc EXCEPT !.events = Append(@, EmitMessage(chunk))]
    ELSE IF p = "anthropic"
    THEN IF chunk.type \in {"content_block_start", "content_block_delta"} /\ chunk.index = 0
         THEN [acc EXCEPT !.completion = @ \o chunk.content,
                          !.events = Append(@, chunk.content)]
         ELSE acc
    ELSE IF Truthy(chunk.content)
         THEN [acc EXCEPT !.completion = @ \o chunk.content,
                          !.events = Append(@, chunk.content)]
         ELSE IF chunk.call.def THEN [acc EXCEPT !.parts = Append(@, chunk.call)]
         ELSE acc

\* a reducer that keeps the newest arguments instead of concatenating
ReduceStepOverwrite(p, prev, part) ==
    [def |-> TRUE,
     id |-> IF p = "openai" THEN OrElse(prev.id, part.id) ELSE UNDEF,
     type |-> IF p = "openai" /\ prev.type = "undefined" THEN part.type ELSE prev.type,
     name |-> OrElse(prev.name, <<>>) \o OrElse(part.name, <<>>),
     arguments |-> OrElse(part.arguments, OrElse(prev.arguments, <<>>))]

\* the reducer of toolCallStreamParts / functionCallStreamParts
ReduceStep(p, prev, part) ==
    [def |-> TRUE,
     id |-> IF p = "openai" THEN OrElse(prev.id, part.id) ELSE UNDEF,
     type |-> IF p = "openai" /\ prev.type = "undefined" THEN part.type ELSE prev.type,
     name |-> OrElse(prev.name, <<>>) \o OrElse(part.name, <<>>),
     arguments |-> OrElse(prev.arguments, <<>>) \o OrElse(part.arguments, <<>>)]

RECURSIVE ReduceFrom(_, _, _)
ReduceFrom(p, prev, parts) ==
    IF parts = <<>> THEN prev ELSE ReduceFrom(p, ReduceStep(p, prev, Head(parts)), Tail(parts))

\* if (parts.length > 0) toolCall = parts.reduce(..., {})
ReduceParts(p, parts) == IF parts = <<>> THEN NoCall ELSE ReduceFrom(p, NoCall, parts)

\* a provider output that holds text and a tool call: the loop takes whatever
\* each part carries
MixedBodies(p) ==
    { [kind |-> "choices", content |-> <<"o">>, usage |-> NoUsage,
       toolCall |-> [def |-> TRUE,
                     id |-> IF p = "openai" THEN <<"c">> ELSE UNDEF,
                     type |-> IF p = "openai" THEN "function" ELSE "undefined",
                     name |-> <<"f">>, arguments |-> <<"{">>]] }

\* what the provider may answer on a stream, as the equivalent single body
StreamBodies(p) ==
    { [kind |-> "choices", content |-> t, toolCall |-> NoCall, usage |-> NoUsage] : t \in StreamTexts }
    \cup IF p = "anthropic" THEN {}
         ELSE { [kind |-> "choices", content |-> UNDEF, usage |-> NoUsage,
                 toolCall |-> [def |-> TRUE,
                               id |-> IF p = "openai" THEN <<"c">> ELSE UNDEF,
                               type |-> IF p = "openai" THEN "function" ELSE "undefined",
                               name |-> n, arguments |-> a]] :
                n \in StreamCallNames, a \in StreamCallArgs }
              \cup MixedBodies(p)

Piece(t, k) == SubSeq(t, 1, k)

Rest(t, k) == SubSeq(t, k + 1, Len(t))

Absent(t) == IF t = <<>> THEN UNDEF ELSE t

\* the chunks the provider may send next, each with what is left to send after it
NextChunks(p, f, b, sent) ==
    IF f.kind = "text" /\ p = "anthropic"
    THEN IF ~f.started
         THEN { [chunk |-> [NoChunk EXCEPT !.type = "content_block_start", !.content = Piece(f.text, k)],
                 rest |-> [f EXCEPT !.text = Rest(f.text, k), !.started = TRUE]] :
                k \in 0..Len(f.text) }
         ELSE { [chunk |-> [NoChunk EXCEPT !.type = "content_block_delta", !.content = Piece(f.text, k)],
                 rest |-> [f EXCEPT !.text = Rest(f.text, k)]] :
                k \in 1..Len(f.text) }
              \cup { [chunk |-> [NoChunk EXCEPT !.type = "ping"], rest |-> f],
                     [chunk |-> [NoChunk EXCEPT !.type = "content_block_delta", !.index = 1,
                                                !.content = <<"z">>], rest |-> f] }
    ELSE IF f.kind = "text"
    THEN { [chunk |-> [NoChunk EXCEPT !.type = "chunk", !.content = Piece(f.text, k)],
            rest |-> [f EXCEPT !.text = Rest(f.text, k), !.started = TRUE]] :
           k \in 0..Len(f.text) }
    ELSE (IF f.kind = "mixed"
          THEN { [chunk |-> [NoChunk EXCEPT !.type = "chunk", !.content = Piece(f.text, k)],
                  rest |-> [f EXCEPT !.text = Rest(f.text, k), !.started = TRUE]] :
                 k \in 1..Len(f.text) }
          ELSE {})
         \cup
         { [chunk |-> [NoChunk EXCEPT !.type = "chunk",
                          !.call = [def |-> TRUE,
                                    id |-> IF carry THEN b.toolCall.id ELSE UNDEF,
                                    type |-> IF carry THEN b.toolCall.type ELSE "undefined",
                                    name |-> Absent(Piece(f.name, j)),
                                    arguments |-> Absent(Piece(f.arguments, k))]],
            rest |-> [f EXCEPT !.name = Rest(f.name, j), !.arguments = Rest(f.arguments, k),
                               !.started = TRUE]] :
           j \in 0..Len(f.name), k \in 0..Len(f.arguments),
           carry \in IF f.started THEN BOOLEAN ELSE {TRUE} }

FeedDone(f) ==
    /\ f.started
    /\ f.text = <<>> /\ f.name = <<>> /\ f.arguments = <<>>
    /\ f.name2 = <<>> /\ f.arguments2 = <<>>

StreamInputs ==
    { [NoOptions EXCEPT !.responsePrefix = r] : r \in {UNDEF, <<"p">>} }

\* the caller calls chatCompletion on a client configured with stream: true
CallStream(msgs, opts) ==
    /\ pc = "idle"
    /\ stream
    /\ Enter(msgs, opts, "call", 0)
    /\ parent' = NoParent
    /\ UNCHANGED <<other, provider, contextSize, response, chain, body, RetryVars, StreamVars>>

\* the stream is created; the response prefix, if any, is emitted
StreamOpen(b) ==
    /\ pc = "requesting"
    /\ stream
    /\ body' = b
    /\ feed' = [NoFeed EXCEPT !.kind = IF b.toolCall.def /\ Truthy(b.content) THEN "mixed"
                                       ELSE IF b.toolCall.def THEN "call" ELSE "text",
                              !.text = OrElse(b.content, <<>>),
                              !.name = OrElse(b.toolCall.name, <<>>),
                              !.arguments = OrElse(b.toolCall.arguments, <<>>)]
    /\ completion' = <<>>
    /\ streamParts' = <<>>
    /\ events' = IF Truthy(requestOptions.responsePrefix)
                 THEN Append(events, requestOptions.responsePrefix) ELSE events
    /\ fragments' = <<>>
    /\ pc' = "streaming"
    /\ UNCHANGED <<other, provider, contextSize, via, initialMessages, requestOptions, messages,
                   maxPromptTokens, messageTokens, wire, netCalls, error, response, parent,
                   chain, stream, RetryVars>>

\* one iteration of the stream loop
StreamChunk(c) ==
    /\ pc = "streaming"
    /\ c.chunk.call.def => Len(streamParts) < MaxFragments
    /\ LET acc == StreamStep(provider,
                             [completion |-> completion, parts |-> streamParts, events |-> events],
                             c.chunk)
       IN  /\ completion' = acc.completion
           /\ streamParts' = acc.parts
           /\ events' = acc.events
    /\ feed' = c.rest
    /\ fragments' = IF c.rest.text # feed.text THEN Append(fragments, c.chunk.content)
                    ELSE fragments
    /\ UNCHANGED <<other, provider, contextSize, pc, via, initialMessages, requestOptions, messages,
                   maxPromptTokens, messageTokens, wire, netCalls, error, response, parent,
                   chain, stream, body, RetryVars>>

\* the stream ends: the fragments are reduced and the response is classified
StreamEnd ==
    /\ pc = "streaming"
    /\ FeedDone(feed)
    /\ LET r == Classify(provider, completion, ReduceParts(provider, streamParts),
                         RespondBase(provider, initialMessages, messages), requestOptions)
       IN  IF r.ok
           THEN /\ response' = r.env
                /\ pc' = "returned"
                /\ UNCHANGED error
           ELSE /\ error' = ClassifyError(provider, completion,
                                          ReduceParts(provider, streamParts))
                /\ pc' = Thrown(provider, requestOptions, error')
                /\ UNCHANGED response
    /\ UNCHANGED <<other, provider, contextSize, via, initialMessages, requestOptions, messages,
                   maxPromptTokens, messageTokens, wire, netCalls, parent, chain, body,
                   RetryVars, StreamVars>>

InitStream == InitWith(StreamProviders, {NoNum}, TRUE)

NextStream ==
    \/ \E opts \in StreamInputs : CallStream(<< Msg("user", <<"a">>) >>, opts)
    \/ \E b \in StreamBodies(provider) : StreamOpen(b)
    \/ \E c \in NextChunks(provider, feed, body, streamParts) : StreamChunk(c)
    \/ StreamEnd

SpecStream == InitStream /\ [][NextStream]_vars

-----------------------------------------------------------------------------
(* Properties of the streaming aggregation *)

\* what the non-streaming path returns for the same provider output
NonStreamed ==
    Classify(provider, OrElse(body.content, <<>>), body.toolCall,
             RespondBase(provider, initialMessages, messages), requestOptions)

StreamFinished == stream /\ body.kind = "choices" /\ pc \in {"returned", "failed"}

\* C7: for a pure-text response the streaming call and the non-streaming call
\* on equivalent provider output finalize the same content.
C7_StreamedTextEqualsBody ==
    (StreamFinished /\ ~body.toolCall.def)
    => IF NonStreamed.ok
       THEN pc = "returned" /\ response.content = NonStreamed.env.content
       ELSE pc = "failed" /\ error.type = "Malformed"

C7_Witness ==
    /\ StreamFinished
    /\ ~body.toolCall.def
    /\ pc = "returned"
    /\ Len(body.content) >= 2
    /\ body.content[1] \in Whitespace
    /\ Len(events) >= 2
    /\ response.content = NonStreamed.env.content

C14_ExactlyOneAccumulator ==
    (stream /\ pc = "returned" /\ provider \in {"openai", "legacy"})
    => (completion # <<>>) # (streamParts # <<>>)

-----------------------------------------------------------------------------
(* The OpenAI orchestrators, with modelConfig.stream either way *)

OpenAIProviders == {"openai", "legacy"}

InitOpenAI == \E st \in BOOLEAN : InitWith(OpenAIProviders, {NoNum}, st)

NextOpenAI ==
    \/ ~stream /\ \E msgs \in InitialLists, opts \in InputOptions : Call(msgs, opts)
    \/ ~stream /\ \E b \in ProviderBodies(provider) : ProviderReply(b)
    \/ ~stream /\ \E m \in RespondInputs : Respond(m, NoOptions, FALSE)
    \/ \E opts \in StreamInputs : CallStream(<< Msg("user", <<"a">>) >>, opts)
    \/ \E b \in StreamBodies(provider) : StreamOpen(b)
    \/ \E c \in NextChunks(provider, feed, body, streamParts) : StreamChunk(c)
    \/ StreamEnd

SpecOpenAI == InitOpenAI /\ [][NextOpenAI]_vars

\* C17: in the OpenAI orchestrators a provider response, streamed or not, that
\* yields neither non-empty text nor a tool/function call makes chatCompletion
\* fail with the malformed-response error; no envelope is returned.
C17_EmptyResponseIsMalformed ==
    (provider \in OpenAIProviders /\ body.kind = "choices" /\ pc \in {"returned", "failed"}
        /\ ~Truthy(body.content) /\ ~body.toolCall.def)
    => /\ pc = "failed"
       /\ error.type = "Malformed"

C17_Witness ==
    /\ stream
    /\ pc = "failed"
    /\ error.type = "Malformed"
    /\ feed.started
    /\ completion = <<>>
    /\ streamParts = <<>>

\* the events that carry text
NonEmptyEvents == SelectSeq(events, LAMBDA e : e # <<>>)

\* C19: in streaming mode the sink receives exactly one "data" event per text
\* fragment, in arrival order; on a provider that supports prefill (Anthropic)
\* with a responsePrefix set it receives exactly one more event, carrying the
\* prefix, before the first fragment.
C19_OneEventPerFragment ==
    (stream /\ pc \in {"streaming", "returned", "failed"})
    => NonEmptyEvents =
         (IF provider = "anthropic" /\ Truthy(requestOptions.responsePrefix)
          THEN << requestOptions.responsePrefix >> ELSE <<>>) \o fragments

\* C30: in streaming mode, for every successful call of the OpenAI or Anthropic
\* orchestrator, the concatenation in emission order of all "data" event payloads
\* equals the content of the returned response, with or without a responsePrefix
\* and for any whitespace in the fragments.
C30_EventsConcatenateToContent ==
    (stream /\ pc = "returned" /\ provider \in {"openai", "anthropic"}
        /\ Truthy(response.content))
    => FlatSeq(events) = response.content

-----------------------------------------------------------------------------
(* The response limit of the OpenAI orchestrators *)

LimitOptions ==
    { [NoOptions EXCEPT !.minimumResponseTokens = m, !.maximumResponseTokens = x] :
        m \in {NoNum, Num(20), Num(90)}, x \in {NoNum, Num(0), Num(10), Num(50)} }

LimitLists ==
    { << Msg("user", <<"a">>) >>, << Msg("user", <<"a">>), Msg("user", <<"x", "y", "z">>) >> }

InitLimit == InitWith({"openai", "legacy"}, {NoNum, Num(0), Num(100), Num(300)}, FALSE)

NextLimit ==
    \/ \E msgs \in LimitLists, opts \in LimitOptions : Call(msgs, opts)
    \/ \E b \in ProviderBodies(provider) : ProviderReply(b)

SpecLimit == InitLimit /\ [][NextLimit]_vars

\* C36: in the OpenAI orchestrators with contextSize = C and maximumResponseTokens = X
\* both set, the max_tokens sent to the provider equals X whenever E + X <= C (E the
\* estimated prompt tokens), and is lower than X only when X would not fit into the
\* context window next to the prompt.
C36_MaxTokensIsRequestedLimit ==
    (provider \in {"openai", "legacy"} /\ pc = "requesting"
        /\ TruthyNum(contextSize) /\ TruthyNum(requestOptions.maximumResponseTokens))
    => /\ wire.maxTokens.def
       /\ wire.maxTokens.v <= requestOptions.maximumResponseTokens.v
       /\ messageTokens.v + requestOptions.maximumResponseTokens.v <= contextSize.v
          => wire.maxTokens = requestOptions.maximumResponseTokens

-----------------------------------------------------------------------------
(* Stop sequences *)

StopValues ==
    { NoStop, [kind |-> "string", items |-> << <<"s">> >>],
      [kind |-> "list", items |-> << <<"s">>, <<"t">> >>] }

StopOptions ==
    { [NoOptions EXCEPT !.stop = st, !.responsePrefix = r, !.systemMessage = sy] :
        st \in StopValues, r \in {UNDEF, <<"p">>}, sy \in {UNDEF, <<"s", "y">>} }

StopProviders == {"openai", "legacy", "anthropic", "groq", "bedrock"}

InitStop == InitWith(StopProviders, {NoNum}, FALSE)

NextStop ==
    \/ \E msgs \in LimitLists, opts \in StopOptions : Call(msgs, opts)
    \/ \E b \in ProviderBodies(provider) : ProviderReply(b)

SpecStop == InitStop /\ [][NextStop]_vars

\* C38: the stop sequences of RequestOptions.stop are forwarded to the provider
\* request by every orchestrator (OpenAI, OpenAI legacy, Anthropic, Groq, Bedrock),
\* a single string as a one-element list where the provider requires a list.
C38_StopSequencesForwarded ==
    (provider \in StopProviders /\ pc = "requesting")
    => wire.stop = IF provider \in {"anthropic", "bedrock"}
                   THEN StopList(requestOptions.stop) ELSE requestOptions.stop

-----------------------------------------------------------------------------
(* An OpenAI stream that carries two tool calls *)

\* the second call of the response: tool_calls[1] of the single body
SecondCalls ==
    { [def |-> TRUE, id |-> <<"d">>, type |-> "function", name |-> <<"g">>, arguments |-> a] :
        a \in { <<"{">>, <<"{", "}">> } }

TwoCallBodies ==
    { b \in StreamBodies("openai") : b.content = UNDEF /\ b.toolCall.def }

\* the stream is created for a response with two tool calls
StreamOpenTwo(b, second) ==
    /\ pc = "requesting"
    /\ stream
    /\ provider = "openai"
    /\ body' = b
    /\ feed' = [NoFeed EXCEPT !.kind = "calls",
                              !.name = b.toolCall.name,
                              !.arguments = b.toolCall.arguments,
                              !.name2 = second.name,
                              !.arguments2 = second.arguments]
    /\ completion' = <<>>
    /\ streamParts' = <<>>
    /\ events' = IF Truthy(requestOptions.responsePrefix)
                 THEN Append(events, requestOptions.responsePrefix) ELSE events
    /\ fragments' = <<>>
    /\ pc' = "streaming"
    /\ UNCHANGED <<other, provider, contextSize, via, initialMessages, requestOptions, messages,
                   maxPromptTokens, messageTokens, wire, netCalls, error, response, parent,
                   chain, stream, RetryVars>>

\* the chunks of the second call, sent once the first call is through: each is the
\* only element of its chunk's delta.tool_calls, which the loop reads as tool_calls[0]
SecondCallChunks(f) ==
    IF f.kind = "calls" /\ f.started /\ f.name = <<>> /\ f.arguments = <<>>
    THEN { [chunk |-> [NoChunk EXCEPT !.type = "chunk",
                          !.call = [def |-> TRUE,
                                    id |-> IF f.name2 # <<>> THEN <<"d">> ELSE UNDEF,
                                    type |-> IF f.name2 # <<>> THEN "function" ELSE "undefined",
                                    name |-> Absent(Piece(f.name2, j)),
                                    arguments |-> Absent(Piece(f.arguments2, k))]],
             rest |-> [f EXCEPT !.name2 = Rest(f.name2, j), !.arguments2 = Rest(f.arguments2, k)]] :
           j \in {Len(f.name2)}, k \in 0..Len(f.arguments2) }
    ELSE {}

InitTwoCalls == InitWith({"openai"}, {NoNum}, TRUE)

NextTwoCalls ==
    \/ \E opts \in StreamInputs : CallStream(<< Msg("user", <<"a">>) >>, opts)
    \/ \E b \in TwoCallBodies, second \in SecondCalls : StreamOpenTwo(b, second)
    \/ \E c \in NextChunks(provider, feed, body, streamParts) :
          (feed.name # <<>> \/ feed.arguments # <<>>) /\ StreamChunk(c)
    \/ \E c \in SecondCallChunks(feed) :
          (feed.name2 # <<>> \/ feed.arguments2 # <<>>) /\ StreamChunk(c)
    \/ StreamEnd

SpecTwoCalls == InitTwoCalls /\ [][NextTwoCalls]_vars

\* C31: when an OpenAI stream carries fragments of two tool calls, the finalized
\* tool call of the streaming path is the call the non-streaming path selects for
\* the same response, tool_calls[0]: its id, name and arguments hold the fragments
\* of that call only.
C31_StreamSelectsFirstToolCall ==
    (stream /\ pc = "returned" /\ feed.kind = "calls")
    => /\ response.toolCallId = body.toolCall.id
       /\ response.name = body.toolCall.name
       /\ response.arguments = parseUnsafeJson(body.toolCall.arguments)

-----------------------------------------------------------------------------
(* The Bedrock orchestrator with modelConfig.stream *)

BedrockStreamBodies ==
    { b \in StreamBodies("bedrock") : ~b.toolCall.def /\ b.content \in { <<"o">>, <<" ", "o">> } }

\* the stream yields an event that is no chunk, or invokeModelWithResponseStream
\* throws: the catch block logs the error and the call goes on to the finalization
\* with the completion accumulated so far
BedrockStreamError ==
    /\ pc \in {"requesting", "streaming"}
    /\ stream
    /\ provider = "bedrock"
    /\ attempt' = [NoAttempt EXCEPT !.kind = "streamerror"]
    /\ LET text == IF pc = "requesting" THEN <<>> ELSE completion
           r == Classify(provider, text, NoCall,
                         RespondBase(provider, initialMessages, messages), requestOptions)
       IN  /\ completion' = text
           /\ IF r.ok
              THEN /\ response' = r.env
                   /\ pc' = "returned"
                   /\ UNCHANGED error
              ELSE /\ error' = ClassifyError(provider, text, NoCall)
                   /\ pc' = Thrown(provider, requestOptions, error')
                   /\ UNCHANGED response
    /\ UNCHANGED <<other, provider, contextSize, via, initialMessages, requestOptions, messages,
                   maxPromptTokens, messageTokens, wire, netCalls, parent, chain, body,
                   sleeps, given, stream, streamParts, events, feed, fragments>>

InitBedrockStream == InitWith({"bedrock"}, {NoNum}, TRUE)

NextBedrockStream ==
    \/ \E opts \in StreamInputs : CallStream(<< Msg("user", <<"a">>) >>, opts)
    \/ \E b \in BedrockStreamBodies : StreamOpen(b)
    \/ \E c \in NextChunks(provider, feed, body, streamParts) :
          Len(events) <= MaxFragments /\ StreamChunk(c)
    \/ BedrockStreamError
    \/ StreamEnd

SpecBedrockStream == InitBedrockStream /\ [][NextBedrockStream]_vars

\* C33: in the Bedrock streaming orchestrator, when the response stream yields an
\* error event or the stream request throws, chatCompletion fails: it returns no
\* response built from the text accumulated before the error.
C33_StreamErrorFailsTheCall ==
    (provider = "bedrock" /\ attempt.kind = "streamerror")
    => /\ pc = "failed"
       /\ ~response.def

-----------------------------------------------------------------------------
(* The fetch-based OpenAI client with modelConfig.stream: a stream that breaks *)

EdgeStreamInputs ==
    { [NoOptions EXCEPT !.retries = Num(r), !.retryInterval = Num(1)] : r \in {0, 1, 2} }

EdgeStreamBodies ==
    { b \in StreamBodies("edge") :
        \/ b.content \in { <<"o">>, <<" ", "o">> }
        \/ b.content = UNDEF /\ b.toolCall.name = <<"f">> /\ b.toolCall.arguments = <<"{">> }

\* accumulators that live across the attempts of one call
AccumulatorsOfTheCall(text, parts) == [completion |-> text, parts |-> parts]

\* let content = ''; const functionCallStreamParts = []: locals of the invocation
AccumulatorsOfTheAttempt(text, parts) == [completion |-> <<>>, parts |-> <<>>]

\* completion.ok: the reader of the response body is taken
EdgeStreamOpen(b) ==
    /\ pc = "requesting"
    /\ stream
    /\ body' = b
    /\ feed' = [NoFeed EXCEPT !.kind = IF b.toolCall.def THEN "call" ELSE "text",
                              !.text = OrElse(b.content, <<>>),
                              !.name = OrElse(b.toolCall.name, <<>>),
                              !.arguments = OrElse(b.toolCall.arguments, <<>>)]
    /\ completion' = AccumulatorsOfTheAttempt(completion, streamParts).completion
    /\ streamParts' = AccumulatorsOfTheAttempt(completion, streamParts).parts
    /\ fragments' = <<>>
    /\ pc' = "streaming"
    /\ UNCHANGED <<other, provider, contextSize, via, initialMessages, requestOptions, messages,
                   maxPromptTokens, messageTokens, wire, netCalls, error, response, parent,
                   chain, stream, events, RetryVars>>

\* reader.read() rejects with an error carrying a code
EdgeStreamBreak(code) ==
    /\ pc = "streaming"
    /\ attempt' = [NoAttempt EXCEPT !.kind = "transport", !.code = code]
    /\ error' = [NoError EXCEPT !.type = "Transport", !.code = code]
    /\ pc' = Thrown(provider, requestOptions, error')
    /\ sleeps' = IF pc' = "sleeping"
                 THEN Append(sleeps, requestOptions.retryInterval.v) ELSE sleeps
    /\ UNCHANGED <<other, provider, contextSize, via, initialMessages, requestOptions, messages,
                   maxPromptTokens, messageTokens, wire, netCalls, response, parent,
                   chain, given, body, StreamVars>>

InitEdgeStream == InitWith({"edge"}, {NoNum}, TRUE)

NextEdgeStream ==
    \/ \E opts \in EdgeStreamInputs : CallEdge(<< Msg("user", <<"a">>) >>, opts)
    \/ \E b \in EdgeStreamBodies : EdgeStreamOpen(b)
    \/ \E c \in NextChunks(provider, feed, body, streamParts) :
          Len(events) <= MaxFragments /\ StreamChunk(c)
    \/ \E code \in {"ECONNRESET", "AbortError"} : EdgeStreamBreak(code)
    \/ Wake
    \/ StreamEnd

SpecEdgeStream == InitEdgeStream /\ [][NextEdgeStream]_vars

\* the events are only ever appended to
EventsKept ==
    /\ Len(events') >= Len(events)
    /\ SubSeq(events', 1, Len(events)) = events

\* C26: when a streaming attempt breaks with a retryable transport error after
\* fragments were emitted, the retry starts a new streamed response with empty
\* accumulators: what the call returns is made of the fragments of the last attempt
\* only, and the events of earlier attempts stay delivered.
C26_RetryStartsFreshStream ==
    /\ [](pc = "returned"
          => /\ Truthy(response.content) => response.content = FlatSeq(fragments)
             /\ ~Truthy(response.content)
                => /\ response.name = body.toolCall.name
                   /\ response.arguments = parseUnsafeJson(body.toolCall.arguments)
             /\ response.content = body.content)
    /\ [](pc = "streaming" => completion = FlatSeq(fragments))
    /\ [][EventsKept]_vars

C26_Witness ==
    /\ pc = "returned"
    /\ Len(sleeps) = 2
    /\ response.content = <<" ", "o">>
    /\ fragments = << <<" ">>, <<"o">> >>
    /\ events = << <<"o">>, <<"f", ":", " ", "{">>, <<" ">>, <<"o">> >>

-----------------------------------------------------------------------------
(* The stream reader of the fetch-based client: bytes, read chunks and lines *)

\* A data line is the three bytes "d" (for `data: `), one payload character (for the
\* JSON of a text delta carrying that character) and "\n".
DataLine(x) == <<"d", x, "\n">>

MaxLines == 2

LinePayloads ==
    { t \in TextsUpTo({"a", "b"}, MaxLines) : t # <<>> }

\* what may follow the last complete line: nothing, or the beginning of a line
\* that is cut off by the end of the stream
Tails == { <<>>, <<"d">>, <<"d", "b">> }

RECURSIVE BytesOf(_)
BytesOf(payloads) ==
    IF payloads = <<>> THEN <<>> ELSE DataLine(Head(payloads)) \o BytesOf(Tail(payloads))

\* lineBuffer.split('\n') and, per line, line.replace('data:', '').trim() and the
\* parse: the text deltas of the lines of a buffer that ends with "\n"
LineDeltas(buffer) == SelectSeq(buffer, LAMBDA c : c \notin {"d", "\n"})

RECURSIVE ProcessLines(_, _)
ProcessLines(acc, deltas) ==
    IF deltas = <<>> THEN acc
    ELSE ProcessLines(StreamStep("edge", acc,
                                 [NoChunk EXCEPT !.type = "chunk", !.content = << Head(deltas) >>]),
                      Tail(deltas))

\* completion.ok: the reader is taken; the provider will deliver these bytes
ReaderOpen(payloads, tail) ==
    /\ pc = "requesting"
    /\ stream
    /\ provider = "edge"
    /\ body' = [NoBody EXCEPT !.kind = "choices", !.content = payloads]
    /\ feed' = [NoFeed EXCEPT !.kind = "bytes", !.text = BytesOf(payloads) \o tail,
                              !.started = TRUE]
    /\ completion' = AccumulatorsOfTheAttempt(completion, streamParts).completion
    /\ streamParts' = AccumulatorsOfTheAttempt(completion, streamParts).parts
    /\ fragments' = <<>>
    /\ pc' = "streaming"
    /\ UNCHANGED <<other, provider, contextSize, via, initialMessages, requestOptions, messages,
                   maxPromptTokens, messageTokens, wire, netCalls, error, response, parent,
                   chain, stream, events, RetryVars>>

\* one reader.read() that returns k bytes: they go to the line buffer, which is
\* split and processed only if it now ends with "\n"
ReaderRead(k) ==
    /\ pc = "streaming"
    /\ feed.kind = "bytes"
    /\ k \in 1..Len(feed.text)
    /\ LET lineBuffer == feed.buffer \o Piece(feed.text, k)
           acc == [completion |-> completion, parts |-> streamParts, events |-> events]
       IN  IF lineBuffer[Len(lineBuffer)] # "\n"
           THEN /\ feed' = [feed EXCEPT !.text = Rest(feed.text, k), !.buffer = lineBuffer]
                /\ UNCHANGED <<completion, streamParts, events, fragments>>
           ELSE /\ feed' = [feed EXCEPT !.text = Rest(feed.text, k), !.buffer = <<>>]
                /\ completion' = ProcessLines(acc, LineDeltas(lineBuffer)).completion
                /\ streamParts' = ProcessLines(acc, LineDeltas(lineBuffer)).parts
                /\ events' = ProcessLines(acc, LineDeltas(lineBuffer)).events
                /\ fragments' = fragments \o [i \in 1..Len(LineDeltas(lineBuffer)) |->
                                                << LineDeltas(lineBuffer)[i] >>]
    /\ UNCHANGED <<other, provider, contextSize, pc, via, initialMessages, requestOptions, messages,
                   maxPromptTokens, messageTokens, wire, netCalls, error, response, parent,
                   chain, stream, body, RetryVars>>

NextReader ==
    \/ \E opts \in EdgeStreamInputs : CallEdge(<< Msg("user", <<"a">>) >>, opts)
    \/ \E payloads \in LinePayloads, tail \in Tails : ReaderOpen(payloads, tail)
    \/ \E k \in 1..(3 * MaxLines + 2) : ReaderRead(k)
    \/ StreamEnd

SpecReader == InitEdgeStream /\ [][NextReader]_vars

\* C39: in the fetch-based streaming reader every complete data line delivered
\* before the end of the stream contributes its text delta to the content, in
\* arrival order, however the bytes are split into read chunks, a last chunk that
\* does not end with a newline included.
C39_EveryCompleteLineContributes ==
    (feed.kind = "bytes" /\ pc \in {"returned", "failed"})
    => /\ completion = body.content
       /\ pc = "returned"
       /\ response.content = body.content

-----------------------------------------------------------------------------
(* Two chatCompletion calls on one client, interleaved at their awaits *)

\* the locals of the running call
CurrentFrame ==
    [pc |-> pc, via |-> via, initialMessages |-> initialMessages,
     requestOptions |-> requestOptions, messages |-> messages,
     maxPromptTokens |-> maxPromptTokens, messageTokens |-> messageTokens, wire |-> wire,
     netCalls |-> netCalls, error |-> error, response |-> response, parent |-> parent,
     chain |-> chain, sleeps |-> sleeps, attempt |-> attempt, given |-> given,
     completion |-> completion, streamParts |-> streamParts, events |-> events,
     feed |-> feed, fragments |-> fragments, body |-> body]

\* accumulators kept on the client instead of in the call
ResumedSharedAccumulators(saved, running) ==
    [saved EXCEPT !.completion = running.completion, !.streamParts = running.streamParts]

\* what a call finds when it resumes after an await: completion, the fragment
\* list, the options and the message list are locals of the invocation
Resumed(saved, running) == saved

\* the event loop resumes the other call
Switch ==
    /\ LET f == Resumed(other, CurrentFrame)
       IN  /\ pc' = f.pc
           /\ via' = f.via
           /\ initialMessages' = f.initialMessages
           /\ requestOptions' = f.requestOptions
           /\ messages' = f.messages
           /\ maxPromptTokens' = f.maxPromptTokens
           /\ messageTokens' = f.messageTokens
           /\ wire' = f.wire
           /\ netCalls' = f.netCalls
           /\ error' = f.error
           /\ response' = f.response
           /\ parent' = f.parent
           /\ chain' = f.chain
           /\ sleeps' = f.sleeps
           /\ attempt' = f.attempt
           /\ given' = f.given
           /\ completion' = f.completion
           /\ streamParts' = f.streamParts
           /\ events' = f.events
           /\ feed' = f.feed
           /\ fragments' = f.fragments
           /\ body' = f.body
    /\ other' = CurrentFrame
    /\ UNCHANGED <<provider, contextSize, stream>>

ConcOptions ==
    { [NoOptions EXCEPT !.responsePrefix = r, !.retries = Num(1), !.retryInterval = Num(1)] :
        r \in {UNDEF, <<"p">>} }

ConcTexts == { <<" ", "o">> }

ConcBodies(p) ==
    { b \in StreamBodies(p) : b.content \in ConcTexts }
    \cup { b \in StreamBodies(p) :
             b.content = UNDEF /\ b.toolCall.name = <<"f">> /\ b.toolCall.arguments = <<"{">> }

InitConc ==
    \/ InitWith({"openai"}, {NoNum}, TRUE)
    \/ InitWith({"edge"}, {NoNum}, FALSE)

NextConc ==
    \/ Switch
    \/ \E opts \in ConcOptions : CallStream(<< Msg("user", <<"a">>) >>, opts)
    \/ \E b \in ConcBodies(provider) : StreamOpen(b)
    \/ Len(streamParts) <= 1
       /\ \E c \in NextChunks(provider, feed, body, streamParts) : StreamChunk(c)
    \/ StreamEnd
    \/ ~stream /\ \E opts \in ConcOptions : CallEdge(<< Msg("user", <<"a">>) >>, opts)
    \/ ~stream /\ netCalls <= 2 /\ \E status \in {429} : HttpError(status)
    \/ ~stream /\ \E b \in ConcBodies(provider) : HttpBody(200, b)
    \/ ~stream /\ netCalls <= 2 /\ \E code \in {"ECONNRESET"} : TransportError(code)
    \/ ~stream /\ Wake

SpecConc == InitConc /\ [][NextConc]_vars

\* what a call returns when it runs alone on the provider output it received
SoloResult(f) ==
    Classify(provider, OrElse(f.body.content, <<>>), f.body.toolCall,
             RespondBase(provider, f.initialMessages, f.messages), f.requestOptions)

\* the retries a call has made
Wakes(f) == Len(f.sleeps) - (IF f.pc = "sleeping" THEN 1 ELSE 0)

\* the call with locals f has the result, events, retry counter and message
\* list of a call that runs alone
RunsAsAlone(f) ==
    /\ f.pc = "returned"
       => /\ SoloResult(f).ok
          /\ f.response.content = SoloResult(f).env.content
          /\ f.response.message = SoloResult(f).env.message
          /\ f.response.name = SoloResult(f).env.name
    /\ (stream /\ f.pc \in {"streaming", "returned", "failed"})
       => /\ SelectSeq(f.events, LAMBDA e : e # <<>>) =
               (IF Truthy(f.requestOptions.responsePrefix)
                THEN << f.requestOptions.responsePrefix >> ELSE <<>>) \o f.fragments
          /\ f.completion = FlatSeq(f.fragments)
    /\ (~stream /\ f.pc # "idle")
       => /\ f.requestOptions.retries.v = Defaults(f.given.options).retries.v - Wakes(f)
          /\ f.netCalls = Wakes(f) + 1
          /\ \A i \in 1..Len(f.sleeps) :
                f.sleeps[i] = Defaults(f.given.options).retryInterval.v * Pow2(i - 1)
    /\ f.pc # "idle"
       => /\ f.messages = BuildMessages(provider, f.initialMessages, f.requestOptions)
          /\ f.wire.messages = f.messages

\* C23: two chatCompletion calls running concurrently on one client, under
\* any interleaving at their awaits, each return the result and deliver the
\* events of a call that runs alone: no accumulator, retry counter or message
\* list is shared, and the client's modelConfig is never written.
C23_ConcurrentCallsIndependent ==
    /\ [](RunsAsAlone(CurrentFrame) /\ RunsAsAlone(other))
    /\ [][UNCHANGED <<provider, contextSize, stream>>]_vars

C23_Witness ==
    /\ stream
    /\ pc = "streaming"
    /\ other.pc = "streaming"
    /\ completion # <<>>
    /\ other.completion # <<>>
    /\ completion # other.completion
    /\ Len(events) = 2
    /\ other.events # events

====
